---------------------------- MODULE Spec2Model ----------------------------
(***************************************************************************)
(* A model of pylove's GameModeWrapper (src/pylove/lan.py): the command    *)
(* builders (function_request, stop, pattern_request, pattern_request_raw, *)
(* preset_request, get_toys, get_toys_name), the gateway send_command and  *)
(* the response normalisation _parse_json.                                 *)
(*                                                                         *)
(* Representation.                                                         *)
(*  - A Python str that the code takes apart or builds character by        *)
(*    character (action names, the action string, the rule string, the     *)
(*    strength string) is a sequence of one-character strings.  Other      *)
(*    strs (command kinds, keys, toy ids, preset names, texts held in a    *)
(*    response) are TLA+ strings.                                          *)
(*  - Optional[X] is a sequence of length 0 (None) or 1 (the value).       *)
(*  - A Python dict with str keys that is a payload is a function from     *)
(*    its keys; the ordered dict given to function_request is a sequence   *)
(*    of [key, value] records with distinct keys, in insertion order.      *)
(*  - A value whose Python type varies (a JSON value, an entry of an       *)
(*    action list) is a record [k |-> type name, v |-> value].             *)
(***************************************************************************)
EXTENDS Integers, Sequences, FiniteSets, TLC

VARIABLES
    log,            \* self.log, set by the constructor
    last_command,   \* self.last_command: Optional payload
    pc,             \* per caller: where its send_command call stands
    call,           \* per caller: the operation it called last, with its arguments
    command_data,   \* per caller: send_command's argument command_data
    attempts,       \* per caller: requests.post calls made by its current call
    ret,            \* per caller: what its last call returned (Optional response)
    response,       \* per caller: Optional outcome of its requests.post call
    printed,        \* per caller: the diagnostic lines its last call printed
    ncalls,         \* number of calls begun on the wrapper
    arg,            \* the input of a builder function applied on its own
    out             \* Optional result of that application

vars == <<log, last_command, pc, call, command_data, attempts, response, ret, printed,
          ncalls, arg, out>>

---------------------------------------------------------------------------
(* Bounds of the model. *)

\* number of calls made on one wrapper in a run
MaxCalls == 2
\* longest action -> value mapping given to _function_clamp_range / function_request
MaxActions == 2
\* longest action list given to pattern_request
MaxActs == 2
\* longest action list given to _convert_actions_to_letters
MaxLetters == 3
\* longest free prefix of a generated pattern
MaxPrefix == 1
\* how far a generated pattern goes beyond the 50-element limit
MaxOver == 1
\* nesting depth of a generated response body
MaxDepth == 2

\* The callers of the wrapper.
Threads == {1, 2}

---------------------------------------------------------------------------
(* Python values. *)

None == <<>>
Some(x) == <<x>>
IsNone(o) == o = <<>>
Val(o) == o[1]

Min(a, b) == IF b < a THEN b ELSE a
Max(a, b) == IF b > a THEN b ELSE a

\* str(n) for an int n: its decimal digits, "-" first when negative.
Digit(d) == <<"0", "1", "2", "3", "4", "5", "6", "7", "8", "9">>[d + 1]

RECURSIVE NatStr(_)
NatStr(n) == IF n < 10 THEN <<Digit(n)>> ELSE NatStr(n \div 10) \o <<Digit(n % 10)>>

Str(n) == IF n < 0 THEN <<"-">> \o NatStr(0 - n) ELSE NatStr(n)

\* sep.join(parts) for a sequence of strs.
RECURSIVE Join(_, _)
Join(sep, parts) ==
    IF Len(parts) = 0 THEN <<>>
    ELSE IF Len(parts) = 1 THEN parts[1]
    ELSE parts[1] \o sep \o Join(sep, Tail(parts))

\* str.lower() of one character, for the letters that occur as first letters.
Lower(c) ==
    CASE c = "A" -> "a" [] c = "D" -> "d" [] c = "F" -> "f" [] c = "P" -> "p"
      [] c = "R" -> "r" [] c = "S" -> "s" [] c = "T" -> "t" [] c = "V" -> "v"
      [] c = "X" -> "x" [] OTHER -> c

---------------------------------------------------------------------------
(* class Actions(StrEnum) *)

VIBRATE == <<"V", "i", "b", "r", "a", "t", "e">>
VIBRATE1 == <<"V", "i", "b", "r", "a", "t", "e", "1">>
VIBRATE2 == <<"V", "i", "b", "r", "a", "t", "e", "2">>
VIBRATE3 == <<"V", "i", "b", "r", "a", "t", "e", "3">>
ROTATE == <<"R", "o", "t", "a", "t", "e">>
PUMP == <<"P", "u", "m", "p">>
THRUSTING == <<"T", "h", "r", "u", "s", "t", "i", "n", "g">>
FINGERING == <<"F", "i", "n", "g", "e", "r", "i", "n", "g">>
SUCTION == <<"S", "u", "c", "t", "i", "o", "n">>
DEPTH == <<"D", "e", "p", "t", "h">>
ALL == <<"A", "l", "l">>

Actions == {VIBRATE, VIBRATE1, VIBRATE2, VIBRATE3, ROTATE, PUMP, THRUSTING,
            FINGERING, SUCTION, DEPTH, ALL}

\* self.error_codes
error_codes ==
    (200 :> "OK") @@ (400 :> "Invalid Command") @@ (401 :> "Toy Not Found")
    @@ (402 :> "Toy Not Connected") @@ (403 :> "Toy Doesn't Support This Command")
    @@ (404 :> "Invalid Parameter") @@ (500 :> "HTTP server not started or disabled")
    @@ (506 :> "Server Error. Restart Lovense Connect.")

\* self._function_range
_function_range ==
    [a \in Actions |->
        IF a \in {PUMP, DEPTH} THEN [min |-> 0, max |-> 3] ELSE [min |-> 0, max |-> 20]]

---------------------------------------------------------------------------
(* _function_clamp_range *)

\* a faulty variant: the upper limit only, no lower limit
ClampValueNoFloor(action, value) ==
    IF action \in DOMAIN _function_range
    THEN Min(value, _function_range[action].max)
    ELSE value

\* the value stored for one item of actions.items()
ClampValue(action, value) ==
    IF action \in DOMAIN _function_range
    THEN LET min_val == _function_range[action].min
             max_val == _function_range[action].max
         IN  Max(Min(value, max_val), min_val)
    ELSE value

_function_clamp_range(actions) ==
    [i \in 1..Len(actions) |->
        [key |-> actions[i].key, value |-> ClampValue(actions[i].key, actions[i].value)]]

---------------------------------------------------------------------------
(* function_request, stop: the payload each hands to send_command *)

\* the number of elements kept by pattern[:50]
PatternLimit == 50
\* the default of pattern_request's interval
DefaultInterval == 100
\* the default of pattern_request_raw's rule, "V:1;F:;S:100#"
DefaultRule == <<"V", ":", "1", ";", "F", ":", ";", "S", ":", "1", "0", "0", "#">>

\* payload with payload[key] = value added
With(payload, key, value) == (key :> value) @@ payload

\* a faulty variant: the optional arguments are tested for truth, not for None
function_payload_truthy(actions, time, loop_on_time, loop_off_time, toy_id, stop_last) ==
    LET clamped == _function_clamp_range(actions)
        action == Join(<<",">>, [i \in 1..Len(clamped) |->
                                   clamped[i].key \o <<":">> \o Str(clamped[i].value)])
        p0 == [command |-> "Function", action |-> action, timeSec |-> time, apiVer |-> 1]
        p1 == IF ~IsNone(loop_on_time) /\ Val(loop_on_time) # 0
              THEN With(p0, "loopRunningSec", Max(Val(loop_on_time), 1)) ELSE p0
        p2 == IF ~IsNone(loop_off_time) /\ Val(loop_off_time) # 0
              THEN With(p1, "loopPauseSec", Max(Val(loop_off_time), 1)) ELSE p1
        p3 == IF ~IsNone(toy_id) /\ Val(toy_id) # "" THEN With(p2, "toy", Val(toy_id)) ELSE p2
        p4 == IF ~IsNone(stop_last) /\ Val(stop_last) THEN With(p3, "stopPrevious", 1) ELSE p3
    IN  p4

function_payload(actions, time, loop_on_time, loop_off_time, toy_id, stop_last) ==
    LET clamped == _function_clamp_range(actions)
        action == Join(<<",">>, [i \in 1..Len(clamped) |->
                                   clamped[i].key \o <<":">> \o Str(clamped[i].value)])
        p0 == [command |-> "Function", action |-> action, timeSec |-> time, apiVer |-> 1]
        p1 == IF ~IsNone(loop_on_time)
              THEN With(p0, "loopRunningSec", Max(Val(loop_on_time), 1)) ELSE p0
        p2 == IF ~IsNone(loop_off_time)
              THEN With(p1, "loopPauseSec", Max(Val(loop_off_time), 1)) ELSE p1
        p3 == IF ~IsNone(toy_id) THEN With(p2, "toy", Val(toy_id)) ELSE p2
        p4 == IF ~IsNone(stop_last)
              THEN With(p3, "stopPrevious", IF Val(stop_last) THEN 1 ELSE 0) ELSE p3
    IN  p4

stop_payload(toy_id) ==
    LET payload == [command |-> "Function", action |-> <<"S", "t", "o", "p">>,
                    timeSec |-> 0, apiVer |-> 1]
    IN  IF ~IsNone(toy_id) THEN With(payload, "toy", Val(toy_id)) ELSE payload

---------------------------------------------------------------------------
(* _convert_actions_to_letters *)

\* An entry of an action list: a str (an Actions member is a str) or a value of
\* another type.
StrEntry(s) == [k |-> "str", v |-> s]
IntEntry(n) == [k |-> "int", v |-> n]
NoneEntry == [k |-> "NoneType", v |-> 0]

valid_letters == {"v", "r", "p", "t", "f", "s", "d"}

\* the for loop from the i-th entry on, with letter_codes as collected so far
RECURSIVE convert_loop(_, _, _)
convert_loop(actions, i, letter_codes) ==
    IF i > Len(actions)
    THEN IF Len(letter_codes) > 0
         THEN Join(<<",">>, [j \in 1..Len(letter_codes) |-> <<letter_codes[j]>>])
         ELSE <<>>
    ELSE LET action == actions[i] IN
         IF action.k = "str" /\ Len(action.v) > 0
         THEN LET letter == Lower(action.v[1]) IN
              IF letter \notin valid_letters
              THEN convert_loop(actions, i + 1, letter_codes)
              ELSE convert_loop(actions, i + 1, Append(letter_codes, letter))
         ELSE IF action.k = "str" /\ action.v \in Actions
         THEN convert_loop(actions, i + 1, Append(letter_codes, Lower(action.v[1])))
         ELSE <<>>

\* a faulty variant: an entry that is empty or of another type is skipped
RECURSIVE convert_loop_skip(_, _, _)
convert_loop_skip(actions, i, letter_codes) ==
    IF i > Len(actions)
    THEN Join(<<",">>, [j \in 1..Len(letter_codes) |-> <<letter_codes[j]>>])
    ELSE LET action == actions[i] IN
         IF action.k = "str" /\ Len(action.v) > 0 /\ Lower(action.v[1]) \in valid_letters
         THEN convert_loop_skip(actions, i + 1, Append(letter_codes, Lower(action.v[1])))
         ELSE convert_loop_skip(actions, i + 1, letter_codes)

_convert_actions_to_letters_skip(actions) == convert_loop_skip(actions, 1, <<>>)

_convert_actions_to_letters(actions) == convert_loop(actions, 1, <<>>)

---------------------------------------------------------------------------
(* pattern_request_raw, pattern_request, preset_request, get_toys, get_toys_name *)

pattern_raw_payload(strength, rule, time, toy_id) ==
    LET payload == [command |-> "Pattern", rule |-> rule, strength |-> strength,
                    timeSec |-> time, apiVer |-> 2]
    IN  IF ~IsNone(toy_id) THEN With(payload, "toy", Val(toy_id)) ELSE payload

\* a faulty variant: the slice keeps one element more
pattern_clamped_one_more(pattern) ==
    LET sliced == SubSeq(pattern, 1, Min(Len(pattern), PatternLimit + 1))
    IN  [i \in 1..Len(sliced) |-> Min(Max(0, sliced[i]), 20)]

\* pattern = pattern[:50]; pattern = [min(max(0, num), 20) for num in pattern]
pattern_clamped(pattern) ==
    LET sliced == SubSeq(pattern, 1, Min(Len(pattern), PatternLimit))
    IN  [i \in 1..Len(sliced) |-> Min(Max(0, sliced[i]), 20)]

\* strength = ";".join(map(str, pattern))
pattern_strength(pattern) ==
    LET clamped == pattern_clamped(pattern)
    IN  Join(<<";">>, [i \in 1..Len(clamped) |-> Str(clamped[i])])

\* a faulty variant: the feature field is not emptied for a list that contains All
pattern_rule_keep_letters(actions, interval) ==
    LET actions1 == IF IsNone(actions) THEN <<StrEntry(ALL)>> ELSE Val(actions)
        interval1 == Min(Max(interval, 100), 1000)
        acts == _convert_actions_to_letters(actions1)
    IN  <<"V", ":", "1", ";", "F", ":">> \o acts \o <<";", "S", ":">>
            \o Str(interval1) \o <<"#">>

\* the rule string built from the action list and the interval
pattern_rule(actions, interval) ==
    LET actions1 == IF IsNone(actions) THEN <<StrEntry(ALL)>> ELSE Val(actions)
        interval1 == Min(Max(interval, 100), 1000)
        acts == _convert_actions_to_letters(actions1)
        rule == <<"V", ":", "1", ";", "F", ":">> \o acts \o <<";", "S", ":">>
                    \o Str(interval1) \o <<"#">>
    IN  IF \E i \in 1..Len(actions1) : actions1[i] = StrEntry(ALL)
        THEN <<"V", ":", "1", ";", "F", ":", ";", "S", ":">> \o Str(interval1) \o <<"#">>
        ELSE rule

pattern_payload(pattern, actions, interval, time, toy_id) ==
    pattern_raw_payload(pattern_strength(pattern), pattern_rule(actions, interval),
                        time, toy_id)

preset_payload(name, time, toy_id) ==
    LET payload == [command |-> "Preset", name |-> name, timeSec |-> time, apiVer |-> 1]
    IN  IF ~IsNone(toy_id) THEN With(payload, "toy", Val(toy_id)) ELSE payload

get_toys_payload == [command |-> "GetToys"]

get_toys_name_payload == [command |-> "GetToyName"]

---------------------------------------------------------------------------
(* JSON values and _parse_json *)

JInt(n) == [k |-> "int", v |-> n]
JStr(s) == [k |-> "str", v |-> s]
JBool(b) == [k |-> "bool", v |-> b]
JNull == [k |-> "NoneType", v |-> 0]
JList(items) == [k |-> "list", v |-> items]
JDict(items) == [k |-> "dict", v |-> items]

\* json.loads(s) on the texts that occur in the modelled responses: the parsed
\* value, or None where json.loads raises ValueError.
json_loads(s) ==
    CASE s = "7" -> Some(JInt(7))
      [] s = "200" -> Some(JInt(200))
      [] s = "null" -> Some(JNull)
      [] s = "true" -> Some(JBool(TRUE))
      [] s = "{\"a\":1}" -> Some(JDict([a |-> JInt(1)]))
      [] s = "{\"a\":\"7\"}" -> Some(JDict([a |-> JStr("7")]))
      [] s = "[1,\"7\"]" -> Some(JList(<<JInt(1), JStr("7")>>))
      [] s = "[]" -> Some(JList(<<>>))
      [] s = "\"7\"" -> Some(JStr("7"))
      [] s = "\"hello\"" -> Some(JStr("hello"))
      [] OTHER -> None

\* a faulty variant: lists are returned as they are
RECURSIVE _parse_json_no_lists(_)
_parse_json_no_lists(data) ==
    IF data.k = "str"
    THEN LET parsed == json_loads(data.v) IN IF IsNone(parsed) THEN data ELSE Val(parsed)
    ELSE IF data.k = "dict"
    THEN JDict([key \in DOMAIN data.v |-> _parse_json_no_lists(data.v[key])])
    ELSE data

RECURSIVE _parse_json(_)
_parse_json(data) ==
    IF data.k = "str"
    THEN LET parsed == json_loads(data.v) IN IF IsNone(parsed) THEN data ELSE Val(parsed)
    ELSE IF data.k = "dict"
    THEN JDict([key \in DOMAIN data.v |-> _parse_json(data.v[key])])
    ELSE IF data.k = "list"
    THEN JList([i \in 1..Len(data.v) |-> _parse_json(data.v[i])])
    ELSE data

---------------------------------------------------------------------------
(* send_command *)

\* What requests.post does: it raises, or returns a response with a status code
\* and a body.  body is what response.json() gives: None where the body is not
\* JSON and response.json() raises.
Raises(exception) == [k |-> exception, status_code |-> 0, body |-> None]
Response(status_code, body) == [k |-> "Response", status_code |-> status_code, body |-> body]

\* bool(response): requests' Response.ok, false for the statuses 400..599
Truthy(resp) == ~(400 <= resp.status_code /\ resp.status_code < 600)

\* lines 211-219: the line printed for the response's code when logging
response_msg(response_json) ==
    LET has_code == "code" \in DOMAIN response_json.v
        response_code == IF has_code THEN response_json.v["code"] ELSE JNull
    IN  IF response_code.k = "int"
        THEN <<"Response:", ToString(response_code.v),
               IF response_code.v \in DOMAIN error_codes
               THEN error_codes[response_code.v] ELSE "Unknown Error">>
        ELSE IF response_code.k = "bool"
        THEN <<"Response:", IF response_code.v THEN "True" ELSE "False", "Unknown Error">>
        ELSE <<"Response: Unknown response code">>

Return(value, lines) == [pc |-> IF IsNone(value) THEN "failure" ELSE "success",
                         ret |-> value, printed |-> lines]
Raise == [pc |-> "raised", ret |-> None, printed |-> <<>>]

\* a faulty variant: a response with a status other than 200 is parsed and returned
send_command_result_any_status(lg, outcome) ==
    IF outcome.k # "Response"
    THEN Return(None, <<"Error">>)
    ELSE IF ~Truthy(outcome)
    THEN Return(None, <<"Error: Received no response from server.">>)
    ELSE IF IsNone(outcome.body) THEN Raise
         ELSE Return(Some(_parse_json(Val(outcome.body))), <<>>)

\* a faulty variant: the body is returned only when its code is 200
send_command_result_ok_only(lg, outcome) ==
    IF outcome.k # "Response" \/ ~Truthy(outcome) \/ outcome.status_code # 200
    THEN Return(None, <<"Error">>)
    ELSE IF IsNone(outcome.body) THEN Raise
         ELSE LET response_json == _parse_json(Val(outcome.body)) IN
              IF response_json.k # "dict" THEN Raise
              ELSE IF "code" \in DOMAIN response_json.v
                      /\ response_json.v["code"] = JInt(200)
              THEN Return(Some(response_json), <<>>)
              ELSE Return(None, <<"Error">>)

\* lines 178-224: what the call does with the outcome of requests.post
send_command_result(lg, outcome) ==
    IF outcome.k \in {"ConnectionError", "ConnectTimeout"}
    THEN Return(None, <<"Error: Failed to establish a new connection">>)
    ELSE IF outcome.k = "Timeout"
    THEN Return(None, <<"Error: Request timed out">>)
    ELSE IF outcome.k = "RequestException"
    THEN Return(None, <<"Error: An error occurred in the request:">>)
    ELSE IF ~Truthy(outcome)
    THEN Return(None, <<"Error: Received no response from server.">>)
    ELSE IF outcome.status_code # 200
    THEN Return(None, <<"Error: Received HTTP status code",
                        ToString(outcome.status_code), "from the server.">>)
    ELSE IF IsNone(outcome.body)
    THEN Raise
    ELSE LET response_json == _parse_json(Val(outcome.body)) IN
         IF response_json.k # "dict"
         THEN Raise
         ELSE Return(Some(response_json), IF lg THEN response_msg(response_json) ELSE <<>>)

\* a faulty variant: last_command is left as it was
send_command_unrecorded(t, data) ==
    /\ pc[t] # "in_flight"
    /\ ncalls < MaxCalls
    /\ command_data' = [command_data EXCEPT ![t] = Some(data)]
    /\ pc' = [pc EXCEPT ![t] = "in_flight"]
    /\ attempts' = [attempts EXCEPT ![t] = 1]
    /\ response' = [response EXCEPT ![t] = None]
    /\ ret' = [ret EXCEPT ![t] = None]
    /\ printed' = [printed EXCEPT ![t] = <<>>]
    /\ ncalls' = ncalls + 1
    /\ UNCHANGED <<last_command, log, arg, out>>

\* lines 158-177: the call up to requests.post, which is then in flight
send_command(t, data) ==
    /\ pc[t] # "in_flight"
    /\ ncalls < MaxCalls
    /\ last_command' = Some(data)
    /\ command_data' = [command_data EXCEPT ![t] = Some(data)]
    /\ pc' = [pc EXCEPT ![t] = "in_flight"]
    /\ attempts' = [attempts EXCEPT ![t] = 1]
    /\ response' = [response EXCEPT ![t] = None]
    /\ ret' = [ret EXCEPT ![t] = None]
    /\ printed' = [printed EXCEPT ![t] = <<>>]
    /\ ncalls' = ncalls + 1
    /\ UNCHANGED <<log, arg, out>>

---------------------------------------------------------------------------
(* The operations of the wrapper, as a caller t invokes them. *)

SendCommand(t, data) ==
    /\ call' = [call EXCEPT ![t] = [op |-> "send_command"]]
    /\ send_command(t, data)

FunctionRequest(t, actions, time, loop_on_time, loop_off_time, toy_id, stop_last) ==
    /\ call' = [call EXCEPT ![t] =
                  [op |-> "function_request", actions |-> actions, time |-> time,
                   loop_on_time |-> loop_on_time, loop_off_time |-> loop_off_time,
                   toy_id |-> toy_id, stop_last |-> stop_last]]
    /\ send_command(t, function_payload(actions, time, loop_on_time, loop_off_time,
                                        toy_id, stop_last))

Stop(t, toy_id) ==
    /\ call' = [call EXCEPT ![t] = [op |-> "stop", toy_id |-> toy_id]]
    /\ send_command(t, stop_payload(toy_id))

PatternRequestRaw(t, strength, rule, time, toy_id) ==
    /\ call' = [call EXCEPT ![t] =
                  [op |-> "pattern_request_raw", strength |-> strength, rule |-> rule,
                   time |-> time, toy_id |-> toy_id]]
    /\ send_command(t, pattern_raw_payload(strength, rule, time, toy_id))

PatternRequest(t, pattern, actions, interval, time, toy_id) ==
    /\ call' = [call EXCEPT ![t] =
                  [op |-> "pattern_request", pattern |-> pattern, actions |-> actions,
                   interval |-> interval, time |-> time, toy_id |-> toy_id]]
    /\ send_command(t, pattern_payload(pattern, actions, interval, time, toy_id))

PresetRequest(t, name, time, toy_id) ==
    /\ call' = [call EXCEPT ![t] =
                  [op |-> "preset_request", name |-> name, time |-> time,
                   toy_id |-> toy_id]]
    /\ send_command(t, preset_payload(name, time, toy_id))

GetToys(t) ==
    /\ call' = [call EXCEPT ![t] = [op |-> "get_toys"]]
    /\ send_command(t, get_toys_payload)

GetToysName(t) ==
    /\ call' = [call EXCEPT ![t] = [op |-> "get_toys_name"]]
    /\ send_command(t, get_toys_name_payload)

---------------------------------------------------------------------------
(* The remote application and the transport: what requests.post can do. *)

\* response bodies, as response.json() gives them
Bodies ==
    { Some(JDict([code |-> JInt(200), type |-> JStr("OK")])),
      Some(JDict([code |-> JInt(402), type |-> JStr("hello")])),
      Some(JDict([code |-> JInt(999)])),
      Some(JDict([code |-> JStr("hello")])),
      Some(JDict([code |-> JStr("200")])),
      Some(JDict([code |-> JNull])),
      Some(JDict([type |-> JStr("OK")])),
      Some(JDict([code |-> JInt(200),
                  data |-> JDict([toys |-> JStr("{\"a\":1}"),
                                  names |-> JList(<<JStr("[1,\"7\"]"), JStr("hello")>>)])])),
      Some(JStr("{\"a\":1}")),
      Some(JList(<<JInt(200)>>)),
      None }

Statuses == {204, 301, 404, 500}

Outcomes ==
    {Raises(e) : e \in {"ConnectionError", "ConnectTimeout", "Timeout", "RequestException"}}
    \cup {Response(s, None) : s \in Statuses}
    \cup {Response(200, b) : b \in Bodies}

\* a faulty variant: the returning call stores its payload in last_command again
Respond_storing(t) ==
    /\ pc[t] = "in_flight"
    /\ \E outcome \in Outcomes :
          LET r == send_command_result(log, outcome) IN
          /\ response' = [response EXCEPT ![t] = Some(outcome)]
          /\ pc' = [pc EXCEPT ![t] = r.pc]
          /\ ret' = [ret EXCEPT ![t] = r.ret]
          /\ printed' = [printed EXCEPT ![t] = r.printed]
    /\ last_command' = command_data[t]
    /\ UNCHANGED <<log, call, command_data, attempts, ncalls, arg, out>>

\* requests.post ends and send_command runs to its return (or raises)
Respond(t) ==
    /\ pc[t] = "in_flight"
    /\ \E outcome \in Outcomes :
          LET r == send_command_result(log, outcome) IN
          /\ response' = [response EXCEPT ![t] = Some(outcome)]
          /\ pc' = [pc EXCEPT ![t] = r.pc]
          /\ ret' = [ret EXCEPT ![t] = r.ret]
          /\ printed' = [printed EXCEPT ![t] = r.printed]
    /\ UNCHANGED <<log, last_command, call, command_data, attempts, ncalls, arg, out>>

---------------------------------------------------------------------------
(* One wrapper used by one caller, call after call. *)

Toys == {None, Some("t1")}

\* an ordered dict from its items
Dict(items) == [i \in 1..Len(items) |-> [key |-> items[i][1], value |-> items[i][2]]]

OTHER_ACTION == <<"O", "t", "h", "e", "r">>

MainActionMaps ==
    { Dict(<< <<ALL, 2>> >>),
      Dict(<< <<VIBRATE, 25>>, <<PUMP, 5>> >>),
      Dict(<< <<DEPTH, 3>>, <<ROTATE, -1>> >>),
      Dict(<< <<OTHER_ACTION, 50>>, <<SUCTION, 20>> >>),
      Dict(<<>>) }

\* loop_on_time, loop_off_time, stop_last
MainFunctionOpts == { <<None, None, None>>, <<Some(0), Some(3), Some(FALSE)>> }

ExamplePattern == <<1, 2, 3, 4, 5, 20>>

\* the i-th value of a generated pattern: values from -3 to 22
Filler(i) == ((i * 7) % 26) - 3

GenPattern(prefix, n) ==
    [i \in 1..n |-> IF i <= Len(prefix) THEN prefix[i] ELSE Filler(i)]

MainPatterns == { ExamplePattern, <<-1, 25, 3>>, <<>>, GenPattern(<<>>, PatternLimit + 1) }

MainActionLists ==
    { None, Some(<<StrEntry(PUMP)>>), Some(<<StrEntry(VIBRATE), StrEntry(ROTATE)>>),
      Some(<<StrEntry(ALL), StrEntry(PUMP)>>), Some(<<StrEntry(DEPTH), StrEntry(<<>>)>>) }

\* interval, toy_id
MainPatternOpts == { <<DefaultInterval, None>>, <<250, Some("t1")>>, <<5000, None>> }

RawStrength == <<"9", "9", ";", "0">>
RawRule == <<"V", ":", "1", ";", "F", ":", "p", ";", "S", ":", "5", "0", "#">>

\* payloads a caller hands to send_command itself
RawCommands ==
    { [command |-> "GetToyName"],
      [command |-> "Function", action |-> <<"P", "u", "m", "p", ":", "9">>,
       timeSec |-> 0, apiVer |-> 1] }

\* the wrapper as __init__ leaves it, with no call made yet
Constructed ==
    /\ last_command = None
    /\ pc = [t \in Threads |-> "idle"]
    /\ call = [t \in Threads |-> [op |-> "none"]]
    /\ command_data = [t \in Threads |-> None]
    /\ attempts = [t \in Threads |-> 0]
    /\ response = [t \in Threads |-> None]
    /\ ret = [t \in Threads |-> None]
    /\ printed = [t \in Threads |-> <<>>]
    /\ ncalls = 0

Init ==
    /\ log \in BOOLEAN
    /\ Constructed
    /\ arg = None
    /\ out = None

Next ==
    \/ \E data \in RawCommands : SendCommand(1, data)
    \/ ~IsNone(last_command) /\ SendCommand(1, Val(last_command))
    \/ \E actions \in MainActionMaps, opts \in MainFunctionOpts, toy_id \in Toys :
          FunctionRequest(1, actions, 0, opts[1], opts[2], toy_id, opts[3])
    \/ \E toy_id \in Toys : Stop(1, toy_id)
    \/ \E toy_id \in Toys :
          \/ PatternRequestRaw(1, RawStrength, RawRule, 0, toy_id)
          \/ PatternRequestRaw(1, pattern_strength(ExamplePattern), DefaultRule, 5, toy_id)
    \/ \E pattern \in MainPatterns, actions \in MainActionLists, opts \in MainPatternOpts :
          PatternRequest(1, pattern, actions, opts[1], 5, opts[2])
    \/ \E name \in {"pulse", "custom"}, toy_id \in Toys : PresetRequest(1, name, 0, toy_id)
    \/ GetToys(1)
    \/ GetToysName(1)
    \/ Respond(1)

Spec == Init /\ [][Next]_vars

---------------------------------------------------------------------------
(* The builder functions applied to inputs drawn from bounded sets. *)

\* the sequences over S of length at most n
SeqsUpTo(S, n) == UNION {[1..m -> S] : m \in 0..n}

\* the ordered dicts of at most n items with keys and values from the given sets
Dicts(keys, values, n) ==
    {d \in SeqsUpTo([key : keys, value : values], n) :
        \A i, j \in 1..Len(d) : i # j => d[i].key # d[j].key}

ClampInputs == Dicts(Actions \cup {OTHER_ACTION}, {-1, 0, 3, 4, 20, 21}, MaxActions)

InitClamp ==
    /\ log = FALSE
    /\ Constructed
    /\ arg \in ClampInputs
    /\ out = None

ApplyClamp ==
    /\ IsNone(out)
    /\ out' = Some(_function_clamp_range(arg))
    /\ UNCHANGED <<log, last_command, pc, call, command_data, attempts, response, ret,
                   printed, ncalls, arg>>

NextClamp == ApplyClamp

SpecClamp == InitClamp /\ [][NextClamp]_vars

FunctionInputs ==
    [actions : Dicts({VIBRATE, PUMP}, {-1, 25}, MaxActions),
     time : {0, 5},
     loop_on_time : {None, Some(0), Some(1), Some(3)},
     loop_off_time : {None, Some(0), Some(1), Some(3)},
     toy_id : {None, Some(""), Some("t1")},
     stop_last : {None, Some(TRUE), Some(FALSE)}]

InitFunction ==
    /\ log = FALSE
    /\ Constructed
    /\ arg \in FunctionInputs
    /\ out = None

CallFunctionRequest ==
    /\ ncalls = 0
    /\ FunctionRequest(1, arg.actions, arg.time, arg.loop_on_time, arg.loop_off_time,
                       arg.toy_id, arg.stop_last)

NextFunction == CallFunctionRequest

SpecFunction == InitFunction /\ [][NextFunction]_vars

PatternLens == (0..(MaxPrefix + 1)) \cup ((PatternLimit - 1)..(PatternLimit + MaxOver))

Patterns ==
    {ExamplePattern}
    \cup {GenPattern(prefix, n) : prefix \in SeqsUpTo({-1, 7, 25}, MaxPrefix), n \in PatternLens}

ActionLists ==
    {None} \cup {Some(list) : list \in SeqsUpTo({StrEntry(ALL), StrEntry(PUMP),
                                                  StrEntry(VIBRATE), StrEntry(<<>>),
                                                  IntEntry(5)}, MaxActs)}

PatternInputs ==
    [pattern : Patterns,
     actions : ActionLists,
     interval : {-5, 99, DefaultInterval, 250, 1000, 1001, 5000},
     time : {5},
     toy_id : Toys]

InitPattern ==
    /\ log = FALSE
    /\ Constructed
    /\ arg \in PatternInputs
    /\ out = None

CallPatternRequest ==
    /\ ncalls = 0
    /\ PatternRequest(1, arg.pattern, arg.actions, arg.interval, arg.time, arg.toy_id)

NextPattern == CallPatternRequest

SpecPattern == InitPattern /\ [][NextPattern]_vars

LetterEntries ==
    {StrEntry(a) : a \in {VIBRATE, ROTATE, PUMP, THRUSTING, FINGERING, SUCTION, DEPTH, ALL,
                          <<"v", "i", "b">>, <<"X", "y", "z">>, <<>>}}
    \cup {IntEntry(5), NoneEntry}

InitLetters ==
    /\ log = FALSE
    /\ Constructed
    /\ arg \in SeqsUpTo(LetterEntries, MaxLetters)
    /\ out = None

ApplyLetters ==
    /\ IsNone(out)
    /\ out' = Some(_convert_actions_to_letters(arg))
    /\ UNCHANGED <<log, last_command, pc, call, command_data, attempts, response, ret,
                   printed, ncalls, arg>>

NextLetters == ApplyLetters

SpecLetters == InitLetters /\ [][NextLetters]_vars

JsonLeaves ==
    {JInt(7), JNull, JBool(TRUE), JStr("hello"), JStr("7"), JStr("\"7\""),
     JStr("{\"a\":\"7\"}"), JStr("[1,\"7\"]")}

JsonSiblings == {JInt(7), JStr("hello"), JStr("7")}

\* x put into a list or a mapping, alone or beside a leaf
Wraps(x) ==
    {JList(<<x>>), JDict([data |-> x])}
    \cup {JList(<<x, y>>) : y \in JsonSiblings}
    \cup {JList(<<y, x>>) : y \in JsonSiblings}
    \cup {JDict([data |-> x, code |-> y]) : y \in JsonSiblings}

RECURSIVE JsonValues(_)
JsonValues(depth) ==
    IF depth = 0 THEN JsonLeaves
    ELSE LET inner == JsonValues(depth - 1)
         IN  inner \cup UNION {Wraps(x) : x \in inner}

InitParse ==
    /\ log = FALSE
    /\ Constructed
    /\ arg \in JsonValues(MaxDepth)
    /\ out = None

ApplyParse ==
    /\ IsNone(out)
    /\ out' = Some(_parse_json(arg))
    /\ UNCHANGED <<log, last_command, pc, call, command_data, attempts, response, ret,
                   printed, ncalls, arg>>

NextParse == ApplyParse

SpecParse == InitParse /\ [][NextParse]_vars

---------------------------------------------------------------------------
(* Reading a built string back: what the remote application receives. *)

\* s.split(sep) for a one-character sep
RECURSIVE Split(_, _)
Split(s, sep) ==
    IF \A i \in 1..Len(s) : s[i] # sep
    THEN <<s>>
    ELSE LET i == CHOOSE i \in 1..Len(s) : s[i] = sep /\ \A j \in 1..(i - 1) : s[j] # sep
         IN  <<SubSeq(s, 1, i - 1)>> \o Split(SubSeq(s, i + 1, Len(s)), sep)

\* the entries of a joined string: none for the empty string
Entries(s, sep) == IF Len(s) = 0 THEN <<>> ELSE Split(s, sep)

DigitVal(c) == CHOOSE d \in 0..9 : Digit(d) = c

RECURSIVE ParseNat(_)
ParseNat(cs) ==
    IF Len(cs) = 0 THEN 0
    ELSE ParseNat(SubSeq(cs, 1, Len(cs) - 1)) * 10 + DigitVal(cs[Len(cs)])

ParseInt(cs) == IF cs[1] = "-" THEN 0 - ParseNat(Tail(cs)) ELSE ParseNat(cs)

\* the action:value pairs of a Function payload's action string
ActionPairs(action) ==
    LET items == Entries(action, ",")
    IN  [i \in 1..Len(items) |->
            LET kv == Split(items[i], ":")
            IN  [key |-> kv[1], value |-> ParseInt(kv[2])]]

\* the strengths of a Pattern payload's strength string
Strengths(strength) ==
    LET items == Entries(strength, ";")
    IN  [i \in 1..Len(items) |-> ParseInt(items[i])]

\* the feature letters of a rule string "V:1;F:<letters>;S:<interval>#"
RuleLetters(rule) ==
    LET field == Split(rule, ";")[2]
    IN  Entries(SubSeq(field, 3, Len(field)), ",")

\* the interval of a rule string
RuleInterval(rule) ==
    LET field == Split(rule, ";")[3]
    IN  ParseInt(SubSeq(field, 3, Len(field) - 1))

\* the action a feature letter of a rule stands for
LetterAction(letter) ==
    CASE letter = <<"v">> -> VIBRATE [] letter = <<"r">> -> ROTATE
      [] letter = <<"p">> -> PUMP [] letter = <<"t">> -> THRUSTING
      [] letter = <<"f">> -> FINGERING [] letter = <<"s">> -> SUCTION
      [] letter = <<"d">> -> DEPTH

\* the declared ranges, as the specification lists them
DeclaredMax(action) == IF action \in {PUMP, DEPTH} THEN 3 ELSE 20
InDeclaredRange(action, value) == 0 <= value /\ value <= DeclaredMax(action)

Sent(t) == Val(command_data[t])

---------------------------------------------------------------------------
(* C1: at every point of a sequential run, last_command is the payload of  *)
(* the call attempted last: None before the first call; from the moment a  *)
(* call has handed its payload to the transport, while the request is in   *)
(* flight, and after the call has ended in success or in any failure, it   *)
(* is that call's payload, of the command kind of the operation called.    *)
CommandOf(op) ==
    CASE op \in {"function_request", "stop"} -> {"Function"}
      [] op \in {"pattern_request", "pattern_request_raw"} -> {"Pattern"}
      [] op = "preset_request" -> {"Preset"}
      [] op = "get_toys" -> {"GetToys"}
      [] op = "get_toys_name" -> {"GetToyName"}
      [] OTHER -> {"Function", "Pattern", "Preset", "GetToys", "GetToyName"}

C1_LastCommandIsLatestPayload ==
    /\ ncalls = 0 => IsNone(last_command)
    /\ ncalls > 0 =>
          /\ pc[1] # "idle"
          /\ last_command = command_data[1]
          /\ Val(last_command).command \in CommandOf(call[1].op)
          /\ pc[1] = "in_flight" => attempts[1] = 1 /\ IsNone(response[1])

\* a second call, a stop after another operation, has failed and the cache
\* holds the stop payload
C1_Witness ==
    /\ ncalls = 2
    /\ call[1].op = "stop"
    /\ pc[1] = "failure"
    /\ ~IsNone(last_command)
    /\ Val(last_command).action = <<"S", "t", "o", "p">>

---------------------------------------------------------------------------
(* C2: whenever the transport of a call failed (requests.post raised a     *)
(* connection error, a timeout or another request exception, or returned   *)
(* a response whose status is not 200), the call has returned None and     *)
(* has not raised, whichever operation made the call.                      *)
TransportFailed(outcome) ==
    \/ outcome.k \in {"ConnectionError", "ConnectTimeout", "Timeout", "RequestException"}
    \/ outcome.k = "Response" /\ outcome.status_code # 200

C2_FailureToEmpty ==
    \A t \in Threads :
        ~IsNone(response[t]) /\ TransportFailed(Val(response[t]))
            => pc[t] = "failure" /\ IsNone(ret[t])

\* a function_request met HTTP status 500 and returned None
C2_Witness ==
    /\ call[1].op = "function_request"
    /\ ~IsNone(response[1])
    /\ Val(response[1]).k = "Response"
    /\ Val(response[1]).status_code = 500
    /\ pc[1] = "failure"
    /\ IsNone(ret[1])

---------------------------------------------------------------------------
(* C3: whenever the transport of a call succeeded with status 200 and the  *)
(* body is a JSON object, the call has returned the normalised body (not   *)
(* None, and without raising), whatever the body holds under "code".       *)
BodyIsObject(outcome) ==
    /\ outcome.k = "Response"
    /\ outcome.status_code = 200
    /\ ~IsNone(outcome.body)
    /\ Val(outcome.body).k = "dict"

C3_ApplicationCodesReturned ==
    \A t \in Threads :
        ~IsNone(response[t]) /\ BodyIsObject(Val(response[t]))
            => /\ pc[t] = "success"
               /\ ret[t] = Some(_parse_json(Val(Val(response[t]).body)))
               /\ DOMAIN Val(ret[t]).v = DOMAIN Val(Val(response[t]).body).v

\* a body with the application code 402 came back and was returned
C3_Witness ==
    /\ ~IsNone(response[1])
    /\ BodyIsObject(Val(response[1]))
    /\ pc[1] = "success"
    /\ ~IsNone(ret[1])
    /\ "code" \in DOMAIN Val(ret[1]).v
    /\ Val(ret[1]).v["code"] = JInt(402)

---------------------------------------------------------------------------
(* C4 as claimed: every intensity a function_request or pattern_request    *)
(* payload carries for an action with a declared range lies in that        *)
(* action's range; a pattern's strengths are carried for the actions its   *)
(* rule names by letter, or for All when the rule names none.              *)
FunctionValuesInRange(payload) ==
    LET pairs == ActionPairs(payload.action)
    IN  \A i \in 1..Len(pairs) :
            pairs[i].key \in Actions => InDeclaredRange(pairs[i].key, pairs[i].value)

PatternValuesInRange(payload) ==
    LET letters == RuleLetters(payload.rule)
        values == Strengths(payload.strength)
    IN  \A i \in 1..Len(values) :
            IF Len(letters) = 0
            THEN InDeclaredRange(ALL, values[i])
            ELSE \A j \in 1..Len(letters) :
                    InDeclaredRange(LetterAction(letters[j]), values[i])

C4_Original ==
    ncalls > 0 =>
        /\ call[1].op = "function_request" => FunctionValuesInRange(Sent(1))
        /\ call[1].op = "pattern_request" => PatternValuesInRange(Sent(1))

(* C4 as amended: every intensity a function_request payload carries for   *)
(* an action with a declared range lies in that action's range, and every  *)
(* strength a pattern_request payload carries lies in 0..20, the range of  *)
(* All, whichever actions the pattern names.                               *)
PatternValuesInAllRange(payload) ==
    LET values == Strengths(payload.strength)
    IN  \A i \in 1..Len(values) : InDeclaredRange(ALL, values[i])

C4_Amended ==
    ncalls > 0 =>
        /\ call[1].op = "function_request" => FunctionValuesInRange(Sent(1))
        /\ call[1].op = "pattern_request" => PatternValuesInAllRange(Sent(1))

\* function_request was given Vibrate 25 and Pump 5 and sent Vibrate 20 and Pump 3
C4_Witness ==
    /\ ncalls > 0
    /\ call[1].op = "function_request"
    /\ call[1].actions = Dict(<< <<VIBRATE, 25>>, <<PUMP, 5>> >>)
    /\ ActionPairs(Sent(1).action) = Dict(<< <<VIBRATE, 20>>, <<PUMP, 3>> >>)

---------------------------------------------------------------------------
(* C5: _function_clamp_range returns a mapping with the keys of its input, *)
(* in the same order; the value of a key with a declared range [min, max]  *)
(* is max(min(v, max), min), which is max above the range, min below it    *)
(* and v inside it, and the value of any other key is the input value.     *)
ClampedAsDeclared(action, v) ==
    IF v > DeclaredMax(action) THEN DeclaredMax(action) ELSE IF v < 0 THEN 0 ELSE v

C5_ClampRange ==
    ~IsNone(out) =>
        LET clamped == Val(out) IN
        /\ Len(clamped) = Len(arg)
        /\ \A i \in 1..Len(arg) :
              /\ clamped[i].key = arg[i].key
              /\ arg[i].key \in Actions
                    => clamped[i].value = ClampedAsDeclared(arg[i].key, arg[i].value)
              /\ arg[i].key \notin Actions => clamped[i].value = arg[i].value

\* Pump 21 became Pump 3 and Rotate -1 became Rotate 0
C5_Witness ==
    /\ arg = Dict(<< <<PUMP, 21>>, <<ROTATE, -1>> >>)
    /\ out = Some(Dict(<< <<PUMP, 3>>, <<ROTATE, 0>> >>))

---------------------------------------------------------------------------
(* C6: the payload function_request sends has command "Function", action,  *)
(* timeSec and apiVer; it has loopRunningSec, loopPauseSec, toy and         *)
(* stopPrevious exactly when the caller gave the argument (a value other   *)
(* than None, be it 0, "" or False) and no other key; a loop duration is   *)
(* the given one or 1 if that is less; stopPrevious is 1 for True and 0    *)
(* for False.                                                              *)
RequiredKeys == {"command", "action", "timeSec", "apiVer"}
OptionalKeys == {"loopRunningSec", "loopPauseSec", "toy", "stopPrevious"}

Floored(v) == IF v < 1 THEN 1 ELSE v

C6_FunctionPayloadKeys ==
    ncalls > 0 =>
        LET payload == Sent(1)
            keys == DOMAIN payload
        IN  /\ RequiredKeys \subseteq keys
            /\ keys \subseteq RequiredKeys \cup OptionalKeys
            /\ payload["command"] = "Function"
            /\ payload["timeSec"] = arg.time
            /\ payload["apiVer"] = 1
            /\ "loopRunningSec" \in keys <=> ~IsNone(arg.loop_on_time)
            /\ "loopRunningSec" \in keys
                  => payload["loopRunningSec"] = Floored(Val(arg.loop_on_time))
            /\ "loopPauseSec" \in keys <=> ~IsNone(arg.loop_off_time)
            /\ "loopPauseSec" \in keys
                  => payload["loopPauseSec"] = Floored(Val(arg.loop_off_time))
            /\ "toy" \in keys <=> ~IsNone(arg.toy_id)
            /\ "toy" \in keys => payload["toy"] = Val(arg.toy_id)
            /\ "stopPrevious" \in keys <=> ~IsNone(arg.stop_last)
            /\ "stopPrevious" \in keys
                  => payload["stopPrevious"] = (IF Val(arg.stop_last) THEN 1 ELSE 0)

\* loop_on_time 0, toy_id "" and stop_last False were given, loop_off_time was not
C6_Witness ==
    /\ ncalls > 0
    /\ arg.loop_on_time = Some(0)
    /\ IsNone(arg.loop_off_time)
    /\ arg.toy_id = Some("")
    /\ arg.stop_last = Some(FALSE)
    /\ DOMAIN Sent(1) = RequiredKeys \cup {"loopRunningSec", "toy", "stopPrevious"}
    /\ Sent(1)["loopRunningSec"] = 1
    /\ Sent(1)["stopPrevious"] = 0

---------------------------------------------------------------------------
(* C7: the strength string pattern_request sends reads back, split at the  *)
(* semicolons, as the first min(len, 50) values of the pattern in their    *)
(* order, each brought into 0..20; it has at most 50 entries, none         *)
(* outside 0..20, and is exactly those numerals joined by semicolons.      *)
Clamped20(v) == IF v < 0 THEN 0 ELSE IF v > 20 THEN 20 ELSE v

C7_PatternStrength ==
    ncalls > 0 =>
        LET values == Strengths(Sent(1).strength)
            n == IF Len(arg.pattern) < 50 THEN Len(arg.pattern) ELSE 50
        IN  /\ Len(values) = n
            /\ Len(values) <= 50
            /\ \A i \in 1..Len(values) :
                  /\ values[i] = Clamped20(arg.pattern[i])
                  /\ values[i] \in 0..20
            /\ Sent(1).strength = Join(<<";">>, [i \in 1..n |-> Str(values[i])])
            /\ arg.pattern = ExamplePattern
                  => Sent(1).strength = <<"1", ";", "2", ";", "3", ";", "4", ";", "5", ";",
                                          "2", "0">>

\* a pattern of 51 values, some outside 0..20, was sent as 50 strengths
C7_Witness ==
    /\ ncalls > 0
    /\ Len(arg.pattern) = PatternLimit + 1
    /\ \E i \in 1..PatternLimit : arg.pattern[i] > 20
    /\ \E i \in 1..PatternLimit : arg.pattern[i] < 0
    /\ Len(Strengths(Sent(1).strength)) = 50

---------------------------------------------------------------------------
(* The action-letter encoding as the specification states it: nothing if   *)
(* an entry is not a str or is the empty str; otherwise the lower-cased    *)
(* first letters of the entries whose first letter is one of v r p t f s   *)
(* d, in order, joined by commas.                                          *)
Aborts(entry) == entry.k # "str" \/ Len(entry.v) = 0
HasValidLetter(entry) == Lower(Head(entry.v)) \in {"v", "r", "p", "t", "f", "s", "d"}

EncodingOf(list) ==
    IF \E i \in 1..Len(list) : Aborts(list[i])
    THEN <<>>
    ELSE LET kept == SelectSeq(list, HasValidLetter)
         IN  Join(<<",">>, [i \in 1..Len(kept) |-> <<Lower(Head(kept[i].v))>>])

(* C8: the rule pattern_request sends is "V:1;F:<f>;S:<i>#" with i the     *)
(* interval brought into 100..1000 and f empty for an unset action list    *)
(* or one that contains All, otherwise the encoding of the list; interval  *)
(* 250 with ["Pump"] gives "V:1;F:p;S:250#"; with the default interval and *)
(* actions the payload is the one pattern_request_raw builds from the      *)
(* pattern's strength string and the rule "V:1;F:;S:100#".                 *)
ClampedInterval(v) == IF v < 100 THEN 100 ELSE IF v > 1000 THEN 1000 ELSE v

FeatureField(actions) ==
    IF IsNone(actions) \/ (\E i \in 1..Len(Val(actions)) : Val(actions)[i] = StrEntry(ALL))
    THEN <<>>
    ELSE EncodingOf(Val(actions))

StrengthOf(pattern) ==
    LET n == IF Len(pattern) < 50 THEN Len(pattern) ELSE 50
    IN  Join(<<";">>, [i \in 1..n |-> Str(Clamped20(pattern[i]))])

C8_PatternRule ==
    ncalls > 0 =>
        LET rule == Sent(1).rule IN
        /\ rule = <<"V", ":", "1", ";", "F", ":">> \o FeatureField(arg.actions)
                    \o <<";", "S", ":">> \o Str(ClampedInterval(arg.interval)) \o <<"#">>
        /\ RuleInterval(rule) = ClampedInterval(arg.interval)
        /\ RuleLetters(rule) = Entries(FeatureField(arg.actions), ",")
        /\ arg.interval = 250 /\ arg.actions = Some(<<StrEntry(PUMP)>>)
              => rule = <<"V", ":", "1", ";", "F", ":", "p", ";", "S", ":", "2", "5", "0", "#">>
        /\ arg.interval = 100 /\ IsNone(arg.actions)
              => Sent(1) = pattern_raw_payload(StrengthOf(arg.pattern), DefaultRule,
                                               arg.time, arg.toy_id)

\* the list ["All", "Pump"] with interval 5000 gave the rule V:1;F:;S:1000#
C8_Witness ==
    /\ ncalls > 0
    /\ arg.actions = Some(<<StrEntry(ALL), StrEntry(PUMP)>>)
    /\ arg.interval = 5000
    /\ Sent(1).rule = <<"V", ":", "1", ";", "F", ":", ";", "S", ":", "1", "0", "0", "0", "#">>

---------------------------------------------------------------------------
(* C9: _convert_actions_to_letters returns the encoding stated above:      *)
(* entries with another first letter, such as All, add nothing; one entry  *)
(* that is empty or not a str makes the result empty whatever the others   *)
(* are; ["Vibrate", "Rotate"] gives "v,r".                                 *)
C9_ActionLetters ==
    ~IsNone(out) =>
        /\ Val(out) = EncodingOf(arg)
        /\ arg = <<StrEntry(VIBRATE), StrEntry(ROTATE)>> => Val(out) = <<"v", ",", "r">>
        /\ (\E i \in 1..Len(arg) : Aborts(arg[i])) => Val(out) = <<>>

\* an empty string between Vibrate and Rotate made the result empty
C9_Witness ==
    /\ arg = <<StrEntry(VIBRATE), StrEntry(<<>>), StrEntry(ROTATE)>>
    /\ out = Some(<<>>)

---------------------------------------------------------------------------
(* C10: in the normalised response, at every place of the response (the   *)
(* keys of its mappings and the positions of its sequences, at any depth)  *)
(* a mapping is a mapping with the same keys, a sequence a sequence of the *)
(* same length, a str that json.loads parses is the parsed value, a str    *)
(* that it does not parse is that str, and any other value is unchanged.   *)
Missing == [k |-> "missing", v |-> 0]

\* the places of a value: the sequences of keys and positions that lead into it
RECURSIVE Paths(_)
Paths(value) ==
    {<<>>} \cup
    (IF value.k = "dict"
     THEN UNION {{<<key>> \o p : p \in Paths(value.v[key])} : key \in DOMAIN value.v}
     ELSE IF value.k = "list"
     THEN UNION {{<<ToString(i)>> \o p : p \in Paths(value.v[i])} : i \in 1..Len(value.v)}
     ELSE {})

\* what a value holds at a place
RECURSIVE At(_, _)
At(value, path) ==
    IF Len(path) = 0 THEN value
    ELSE IF value.k = "dict"
    THEN IF Head(path) \in DOMAIN value.v
         THEN At(value.v[Head(path)], Tail(path)) ELSE Missing
    ELSE IF value.k = "list"
    THEN IF \E i \in 1..Len(value.v) : ToString(i) = Head(path)
         THEN At(value.v[CHOOSE i \in 1..Len(value.v) : ToString(i) = Head(path)],
                 Tail(path))
         ELSE Missing
    ELSE Missing

C10_ParseJson ==
    ~IsNone(out) =>
        \A path \in Paths(arg) :
            LET before == At(arg, path)
                after == At(Val(out), path)
            IN  CASE before.k = "dict" ->
                        after.k = "dict" /\ DOMAIN after.v = DOMAIN before.v
                  [] before.k = "list" ->
                        after.k = "list" /\ Len(after.v) = Len(before.v)
                  [] before.k = "str" ->
                        after = (IF IsNone(json_loads(before.v))
                                 THEN before ELSE Val(json_loads(before.v)))
                  [] OTHER -> after = before

\* inside a mapping, inside a sequence, the text {"a":"7"} became a mapping
\* (whose "7" stays a str) and the text hello stayed
C10_Witness ==
    /\ arg = JDict([data |-> JList(<<JStr("{\"a\":\"7\"}"), JStr("hello")>>)])
    /\ out = Some(JDict([data |-> JList(<<JDict([a |-> JStr("7")]), JStr("hello")>>)]))

---------------------------------------------------------------------------
(* C11: whenever requests.post returned a response whose status is not     *)
(* 200, the call has returned None and has printed the diagnostic that     *)
(* holds the status code, not the "no response" diagnostic.                *)
NoResponseLine == "Error: Received no response from server."

HasLine(lines, line) == \E i \in 1..Len(lines) : lines[i] = line

C11_StatusCodeReported ==
    \A t \in Threads :
        /\ ~IsNone(response[t])
        /\ Val(response[t]).k = "Response"
        /\ Val(response[t]).status_code # 200
        => /\ pc[t] = "failure"
           /\ IsNone(ret[t])
           /\ HasLine(printed[t], ToString(Val(response[t]).status_code))
           /\ ~HasLine(printed[t], NoResponseLine)

---------------------------------------------------------------------------
(* One wrapper shared by two callers whose send_command calls may overlap. *)

ConcCommands == RawCommands \cup {[command |-> "GetToys"]}

InitConc ==
    /\ log = FALSE
    /\ Constructed
    /\ arg = None
    /\ out = None

NextConc ==
    \/ \E t \in Threads, data \in ConcCommands : SendCommand(t, data)
    \/ \E t \in Threads : Respond(t)

SpecConc == InitConc /\ [][NextConc]_vars

---------------------------------------------------------------------------
(* C12: with overlapping calls, a call stores its own payload in           *)
(* last_command as it begins, before its request, and nothing else ever    *)
(* changes last_command, so it holds the payload of the call that wrote    *)
(* last, also after that call or the other one has returned; a step of one *)
(* caller leaves the other caller's call and return value as they were,    *)
(* and what a call returns is decided by the outcome of its own request.   *)
Begins(t) == pc[t] # "in_flight" /\ pc'[t] = "in_flight"
Ends(t) == pc[t] = "in_flight" /\ pc'[t] # "in_flight"

C12_Step ==
    /\ \A t \in Threads : Begins(t) => last_command' = command_data'[t]
    /\ (\A t \in Threads : ~Begins(t)) => last_command' = last_command
    /\ \A t \in Threads :
          Ends(t) => /\ ~IsNone(response'[t])
                     /\ ret'[t] = send_command_result(log, Val(response'[t])).ret
                     /\ command_data'[t] = command_data[t]
    /\ \A t, u \in Threads :
          t # u /\ (Begins(u) \/ Ends(u))
              => /\ pc'[t] = pc[t]
                 /\ ret'[t] = ret[t]
                 /\ response'[t] = response[t]
                 /\ command_data'[t] = command_data[t]

C12_LastWriterWins == [][C12_Step]_vars

\* caller 1 began after caller 2 and has returned while caller 2's request is
\* still in flight: last_command holds the payload of the call that returns first
C12_Witness ==
    /\ pc[1] \in {"success", "failure"}
    /\ pc[2] = "in_flight"
    /\ ncalls = 2
    /\ last_command = command_data[1]
    /\ command_data[1] # command_data[2]

---------------------------------------------------------------------------
(* C13: a call is idle, in flight, or ended in success or in failure and   *)
(* in nothing else; a call that has begun has made exactly one             *)
(* requests.post; success has returned a response and failure has returned *)
(* None.                                                                   *)
C13_SingleCallLifecycle ==
    \A t \in Threads :
        /\ pc[t] \in {"idle", "in_flight", "success", "failure"}
        /\ pc[t] = "idle" => attempts[t] = 0
        /\ pc[t] # "idle" => attempts[t] = 1
        /\ pc[t] = "success" => ~IsNone(ret[t])
        /\ pc[t] = "failure" => IsNone(ret[t])

===========================================================================
